---------------------------- MODULE Spec2Model ----------------------------
(***************************************************************************)
(* A model of faucet/config_parser.py: the port-range expander, the VLAN   *)
(* identifier resolver, the port and switch assemblers, the cross-switch   *)
(* finalizer and the top-level dispatcher.                                 *)
(*                                                                         *)
(* Python strings are sequences of one-character strings, so that the      *)
(* regular expressions, str() and int() of the code are computed and not   *)
(* assumed.                                                                *)
(***************************************************************************)
EXTENDS Integers, Sequences, FiniteSets, TLC

VARIABLES
    \* ---- the expansion of one port-range string (lines 126-140)
    port_range,             \* the range string given
    port_nums,              \* the set of port numbers it expanded to
    expand_pc,              \* "given", "done" or "error" (an assertion failed)
    \* ---- _dp_add_ports, lines 113-147
    ports_conf,             \* interfaces: sequence of [ident, obj] in dict order
    port_ranges_conf,       \* interface-ranges: sequence of [range, obj] in dict order
    heap,                   \* the port_conf dict objects: obj id -> (field -> value)
    port_num_to_port_conf,  \* port number -> [ident, obj]
    ranges_pc,              \* "interfaces", "ranges", "done" or "error"
    n_expanded,             \* how many interface ranges the loop of line 124 is through
    \* ---- _get_vlan_by_identifier on one switch (lines 70-84)
    vlans,                  \* the switch-local mapping: key string -> VLAN object
    n_vlan_objs,            \* number of VLAN objects constructed and kept so far
    vlan_ident,             \* the reference of the last resolution
    vlan_ret,               \* what the last resolution returned: a VLAN object or "error"
    \* ---- dp_parser (lines 46-63, 155-206)
    pc,                     \* position of the run
    conf,                   \* what the loader gives: [kind, version, include_ok, ndps, vlans]
    dps,                    \* the switch list of _dp_parser_v2
    dp,                     \* the switch being assembled: [name, dp_id, ports, vlans]
    dp_vlans,               \* its switch-local VLAN mapping
    vid_dp,                 \* VLAN numeric id -> set of switch names
    calls,                  \* the finalize_config / resolve_stack_topology calls made
    outcome                 \* [kind, msg, dps]: running, returned, or the exception raised

expand_vars == <<port_range, port_nums, expand_pc>>
ranges_vars == <<ports_conf, port_ranges_conf, heap, port_num_to_port_conf,
                 ranges_pc, n_expanded>>
vlan_vars == <<vlans, n_vlan_objs, vlan_ident, vlan_ret>>
run_vars == <<pc, conf, dps, dp, dp_vlans, vid_dp, calls, outcome>>
vars == <<expand_vars, ranges_vars, vlan_vars, run_vars>>

-----------------------------------------------------------------------------
(* Bounds *)

\* largest port number written in a range string
MaxPortNum == 13
\* most comma-joined tokens in one range string
MaxTokens == 2

-----------------------------------------------------------------------------
(* Python strings *)

Digits == <<"0", "1", "2", "3", "4", "5", "6", "7", "8", "9">>

IsDigit(c) == \E d \in 1..10 : Digits[d] = c

DigitVal(c) == CHOOSE d \in 0..9 : Digits[d + 1] = c

\* int(s) of a string of decimal digits
RECURSIVE ParseDec(_)
ParseDec(s) ==
    IF s = <<>> THEN 0
    ELSE ParseDec(SubSeq(s, 1, Len(s) - 1)) * 10 + DigitVal(s[Len(s)])

\* str(n) of a natural number
RECURSIVE Str(_)
Str(n) ==
    IF n < 10 THEN <<Digits[n + 1]>>
    ELSE Append(Str(n \div 10), Digits[(n % 10) + 1])

\* the last index of the maximal run of digits of s that starts at i (i - 1: none)
RECURSIVE DigitRunEnd(_, _)
DigitRunEnd(s, i) ==
    IF i <= Len(s) /\ IsDigit(s[i]) THEN DigitRunEnd(s, i + 1) ELSE i - 1

\* the last index of the leftmost match of \d+-\d+ that starts at i, or 0.
\* \d+ is greedy: it takes the whole run of digits, and giving digits back
\* never puts a '-' next.
RangeMatchEnd(s, i) ==
    LET e1 == DigitRunEnd(s, i)
        e2 == DigitRunEnd(s, e1 + 2)
    IN  IF e1 >= i /\ e1 + 1 <= Len(s) /\ s[e1 + 1] = "-" /\ e2 >= e1 + 2
        THEN e2 ELSE 0

\* re.findall(r'(\d+-\d+)', s): the non-overlapping matches, left to right
RECURSIVE FindRanges(_, _)
FindRanges(s, i) ==
    IF i > Len(s) THEN <<>>
    ELSE LET e == RangeMatchEnd(s, i)
         IN  IF e > 0 THEN <<SubSeq(s, i, e)>> \o FindRanges(s, e + 1)
             ELSE FindRanges(s, i + 1)

\* re.findall(r'\d+', s): the maximal runs of digits
RECURSIVE FindNums(_, _)
FindNums(s, i) ==
    IF i > Len(s) THEN <<>>
    ELSE LET e == DigitRunEnd(s, i)
         IN  IF e >= i THEN <<SubSeq(s, i, e)>> \o FindNums(s, e + 1)
             ELSE FindNums(s, i + 1)

\* re.sub(pat, '', s) for a pattern of digits and '-': every non-overlapping
\* occurrence of the text pat is removed, left to right
RECURSIVE RemoveAll(_, _)
RemoveAll(pat, s) ==
    IF Len(s) < Len(pat) \/ pat = <<>> THEN s
    ELSE IF SubSeq(s, 1, Len(pat)) = pat
         THEN RemoveAll(pat, SubSeq(s, Len(pat) + 1, Len(s)))
         ELSE <<s[1]>> \o RemoveAll(pat, SubSeq(s, 2, Len(s)))

IndexOf(s, c) == IF \E i \in 1..Len(s) : s[i] = c
                 THEN CHOOSE i \in 1..Len(s) : s[i] = c /\ \A j \in 1..(i - 1) : s[j] # c
                 ELSE 0

SeqToSet(s) == {s[i] : i \in 1..Len(s)}

-----------------------------------------------------------------------------
(* The port-range expander: the body of the loop of lines 124-140 *)

\* lines 129-138: the loop over the start-end tokens found in the string given;
\* st is [nums, rest, err]
RECURSIVE ExpandTokens(_, _)
ExpandTokens(ranges, st) ==
    IF ranges = <<>> \/ st.err THEN st
    ELSE LET range_ == Head(ranges)
             dash == IndexOf(range_, "-")
             start_num == ParseDec(SubSeq(range_, 1, dash - 1))
             end_num == ParseDec(SubSeq(range_, dash + 1, Len(range_)))
         IN  IF ~(start_num < end_num)
             THEN [st EXCEPT !.err = TRUE]
             ELSE ExpandTokens(Tail(ranges),
                      [nums |-> st.nums \cup (start_num..end_num),
                       rest |-> RemoveAll(range_, st.rest),
                       err |-> FALSE])

\* lines 126-140: the port numbers of one range string: [err, nums]
ExpandPortRange(s) ==
    LET st == ExpandTokens(FindRanges(s, 1), [nums |-> {}, rest |-> s, err |-> FALSE])
        other_nums == {ParseDec(p) : p \in SeqToSet(FindNums(st.rest, 1))}
    IN  IF st.err THEN [err |-> TRUE, nums |-> {}]
        ELSE [err |-> FALSE, nums |-> st.nums \cup other_nums]


-----------------------------------------------------------------------------
(* Range strings as the documentation of line 125 writes them *)

\* a token: <<n>> is the bare integer n, <<s, e>> the range s-e
TokenStr(t) == IF Len(t) = 1 THEN Str(t[1]) ELSE Str(t[1]) \o <<"-">> \o Str(t[2])

RECURSIVE JoinTokens(_)
JoinTokens(ts) ==
    IF Len(ts) = 1 THEN TokenStr(ts[1])
    ELSE TokenStr(ts[1]) \o <<",">> \o JoinTokens(Tail(ts))

RECURSIVE TokenSeqs(_, _)
TokenSeqs(T, n) ==
    IF n = 1 THEN {<<t>> : t \in T}
    ELSE TokenSeqs(T, n - 1) \cup {Append(ts, t) : ts \in TokenSeqs(T, n - 1), t \in T}

PortNumbers == 0..MaxPortNum

RangeTokens == {<<n>> : n \in PortNumbers} \cup (PortNumbers \X PortNumbers)

\* the range strings the expansion is tried on
RangeStrings == {JoinTokens(ts) : ts \in TokenSeqs(RangeTokens, MaxTokens)}

\* The reading of a range string that line 125 documents: it is cut at the
\* commas, a token start-end stands for start..end and a bare integer for itself.
RECURSIVE SplitComma(_)
SplitComma(s) ==
    LET c == IndexOf(s, ",")
    IN  IF c = 0 THEN <<s>>
        ELSE <<SubSeq(s, 1, c - 1)>> \o SplitComma(SubSeq(s, c + 1, Len(s)))

TokenPorts(tok) ==
    LET dash == IndexOf(tok, "-")
    IN  IF dash = 0 THEN {ParseDec(tok)}
        ELSE ParseDec(SubSeq(tok, 1, dash - 1))..ParseDec(SubSeq(tok, dash + 1, Len(tok)))

TokenOrdered(tok) ==
    LET dash == IndexOf(tok, "-")
    IN  dash = 0 \/ ParseDec(SubSeq(tok, 1, dash - 1)) < ParseDec(SubSeq(tok, dash + 1, Len(tok)))

DocumentedPorts(s) == UNION {TokenPorts(tok) : tok \in SeqToSet(SplitComma(s))}

WellOrdered(s) == \A tok \in SeqToSet(SplitComma(s)) : TokenOrdered(tok)

-----------------------------------------------------------------------------
(* Idle values of the parts a specification does not run *)

ExpandIdle == port_range = <<>> /\ port_nums = {} /\ expand_pc = "idle"

RangesIdle ==
    /\ ports_conf = <<>>
    /\ port_ranges_conf = <<>>
    /\ heap = <<>>
    /\ port_num_to_port_conf = <<>>
    /\ ranges_pc = "idle"
    /\ n_expanded = 0

VlanIdle == vlans = <<>> /\ n_vlan_objs = 0 /\ vlan_ident = <<>> /\ vlan_ret = "none"

RunIdle ==
    /\ pc = "idle"
    /\ conf = <<>>
    /\ dps = <<>>
    /\ dp = <<>>
    /\ dp_vlans = <<>>
    /\ vid_dp = <<>>
    /\ calls = <<>>
    /\ outcome = <<>>

-----------------------------------------------------------------------------
(* SpecExpand: one range string through lines 126-140 *)

InitExpand ==
    /\ port_range \in RangeStrings
    /\ port_nums = {}
    /\ expand_pc = "given"
    /\ RangesIdle /\ VlanIdle /\ RunIdle

Expand ==
    /\ expand_pc = "given"
    /\ LET r == ExpandPortRange(port_range)
       IN  /\ port_nums' = r.nums
           /\ expand_pc' = IF r.err THEN "error" ELSE "done"
    /\ UNCHANGED <<port_range, ranges_vars, vlan_vars, run_vars>>

NextExpand == Expand

SpecExpand == InitExpand /\ [][NextExpand]_vars

\* C1: a range string of start-end tokens (start < end) and bare integers
\* expands to exactly the union of the intervals [start, end] and the bare
\* integers: nothing is missing, nothing is added.
C1_ExpandsToDocumentedPorts ==
    (expand_pc # "given" /\ WellOrdered(port_range))
        => (expand_pc = "done" /\ port_nums = DocumentedPorts(port_range))

\* the half of C1 the code does keep: no listed number is missing
C1_NothingMissing ==
    (expand_pc # "given" /\ WellOrdered(port_range))
        => (expand_pc = "done" /\ DocumentedPorts(port_range) \subseteq port_nums)


-----------------------------------------------------------------------------
(* SpecRanges: _dp_add_ports, lines 113-147 *)

\* largest port number of the interfaces and interface-ranges of SpecRanges
MaxPort == 3

Ports == 1..MaxPort

\* the keys of a port configuration that the model follows
Fields == {"number", "native_vlan", "description"}

\* how many interfaces are declared individually
InterfaceCounts == {0, 1}

\* A value says where it was written: 0 in an individually declared interface,
\* k in the k-th interface range.
IndividualConfs(p) ==
    {[f \in fs |-> 0] : fs \in SUBSET (Fields \ {"number"})}
        \cup {[f \in fs \cup {"number"} |-> IF f = "number" THEN p ELSE 0] :
                fs \in SUBSET (Fields \ {"number"})}

\* an interface keyed by its number, or keyed by a name and carrying 'number'
Interfaces ==
    UNION {{[ident |-> IF "number" \in DOMAIN c THEN "eth" ELSE "num", key |-> p, conf |-> c] :
                c \in IndividualConfs(p)} : p \in Ports}

\* the key sets of the configurations of the interface ranges
RangeConfKeys ==
    {{"native_vlan"}, {"description"}, {"number", "native_vlan"}}

RangeConfs(k) == {[f \in fs |-> k] : fs \in RangeConfKeys}

\* the range strings of SpecRanges: one token, or a range and a bare integer
RangesTokens ==
    {<<n>> : n \in Ports} \cup {t \in Ports \X Ports : t[1] < t[2]} \cup {<<2, 1>>}

RangesStrings ==
    {TokenStr(t) : t \in RangesTokens}
        \cup {JoinTokens(<<<<1, 2>>, <<n>>>>) : n \in Ports \ {1, 2}}

IndObj(i) == <<"i", i>>
RangeObj(k) == <<"r", k>>

InitRanges ==
    /\ \E n \in InterfaceCounts :
          ports_conf \in [1..n -> Interfaces]
    /\ \E a \in RangesStrings, ca \in RangeConfs(1), cb \in RangeConfs(2) :
       \E b \in RangesStrings \ {a} :
          port_ranges_conf = <<[range |-> a, conf |-> ca], [range |-> b, conf |-> cb]>>
    /\ heap = [o \in {IndObj(i) : i \in 1..Len(ports_conf)}
                     \cup {RangeObj(k) : k \in 1..Len(port_ranges_conf)} |->
                 IF o[1] = "i" THEN ports_conf[o[2]].conf ELSE port_ranges_conf[o[2]].conf]
    /\ port_num_to_port_conf = <<>>
    /\ ranges_pc = "interfaces"
    /\ n_expanded = 0
    /\ ExpandIdle /\ VlanIdle /\ RunIdle

\* lines 119-122: the key of an interface in port_num_to_port_conf
PortNumOf(itf) == IF "number" \in DOMAIN itf.conf THEN itf.conf["number"] ELSE itf.key

\* lines 117-123
AddInterfaces ==
    /\ ranges_pc = "interfaces"
    /\ port_num_to_port_conf' =
          [p \in {PortNumOf(ports_conf[i]) : i \in 1..Len(ports_conf)} |->
              LET i == CHOOSE i \in 1..Len(ports_conf) :
                          /\ PortNumOf(ports_conf[i]) = p
                          /\ \A j \in (i + 1)..Len(ports_conf) : PortNumOf(ports_conf[j]) # p
              IN  [ident |-> ports_conf[i].ident, obj |-> IndObj(i)]]
    /\ ranges_pc' = IF port_ranges_conf = <<>> THEN "done" ELSE "ranges"
    /\ UNCHANGED <<ports_conf, port_ranges_conf, heap, n_expanded, expand_vars, vlan_vars, run_vars>>

\* lines 127-128
DelNumber(c) == [f \in DOMAIN c \ {"number"} |-> c[f]]

\* a slip of lines 144-145: dict.update in place of setdefault
UpdateItems(target, port_conf) ==
    [f \in DOMAIN target \cup DOMAIN port_conf |->
        IF f \in DOMAIN port_conf THEN port_conf[f] ELSE target[f]]

\* lines 144-145: setdefault of every item of port_conf into the dict target
SetDefaults(target, port_conf) ==
    [f \in DOMAIN target \cup DOMAIN port_conf |->
        IF f \in DOMAIN target THEN target[f] ELSE port_conf[f]]

\* lines 146-147: the entry of a port number that had none: the range's own
\* dict object, not a copy of it
NewEntryObj(k, p) == RangeObj(k)

\* lines 124-147, one interface range
ExpandRange ==
    /\ ranges_pc = "ranges"
    /\ LET k == n_expanded + 1
           port_conf == DelNumber(heap[RangeObj(k)])
           heap1 == [heap EXCEPT ![RangeObj(k)] = port_conf]
           r == ExpandPortRange(port_ranges_conf[k].range)
           known == r.nums \cap DOMAIN port_num_to_port_conf
           hit == {port_num_to_port_conf[p].obj : p \in known}
       IN  IF r.err
           THEN /\ ranges_pc' = "error"
                /\ heap' = heap1
                /\ UNCHANGED <<port_num_to_port_conf, n_expanded>>
           ELSE /\ heap' = [o \in DOMAIN heap1 |->
                               IF o \in hit THEN SetDefaults(heap1[o], port_conf)
                               ELSE heap1[o]]
                /\ port_num_to_port_conf' =
                      [p \in DOMAIN port_num_to_port_conf \cup r.nums |->
                          IF p \in DOMAIN port_num_to_port_conf
                          THEN port_num_to_port_conf[p]
                          ELSE [ident |-> "num", obj |-> NewEntryObj(k, p)]]
                /\ n_expanded' = k
                /\ ranges_pc' = IF k = Len(port_ranges_conf) THEN "done" ELSE "ranges"
    /\ UNCHANGED <<ports_conf, port_ranges_conf, expand_vars, vlan_vars, run_vars>>

NextRanges == AddInterfaces \/ ExpandRange

SpecRanges == InitRanges /\ [][NextRanges]_vars

\* the configuration line 148 hands to _dp_parse_port for port number p
Resolved(p) == heap[port_num_to_port_conf[p].obj]

Covers(k, p) == p \in DocumentedPorts(port_ranges_conf[k].range)

\* the interface ranges already expanded
Expanded == 1..n_expanded


\* the interfaces declared individually, as (index, port number)
Individual == {PortNumOf(ports_conf[i]) : i \in 1..Len(ports_conf)}

IndividualConf(p) ==
    ports_conf[CHOOSE i \in 1..Len(ports_conf) : PortNumOf(ports_conf[i]) = p].conf

\* the expanded ranges that cover port number p and declare field f
Givers(p, f) == {k \in Expanded : Covers(k, p) /\ f \in DOMAIN port_ranges_conf[k].conf}

\* C2 as stated: an individually configured port number that ranges cover
\* keeps the individual value of every field of its individual configuration,
\* and every field its individual configuration lacks is filled from the
\* ranges that declare it.
C2_IndividualKeptRangesFill ==
    ranges_pc \in {"ranges", "done"} =>
        \A p \in Individual :
            /\ \A f \in DOMAIN IndividualConf(p) :
                  f \in DOMAIN Resolved(p) /\ Resolved(p)[f] = IndividualConf(p)[f]
            /\ \A f \in Fields \ DOMAIN IndividualConf(p) :
                  Givers(p, f) # {} =>
                      /\ f \in DOMAIN Resolved(p)
                      /\ \E k \in Givers(p, f) : Resolved(p)[f] = port_ranges_conf[k].conf[f]

\* C2 amended: as C2, but of the fields the individual configuration lacks
\* only those other than 'number' are filled from the ranges (a range's
\* 'number' is deleted at line 128); the resolved configuration has no other
\* field, and a lacking field takes the value of the first range that gives it.
C2_IndividualKeptRangesFillButNumber ==
    ranges_pc \in {"ranges", "done"} =>
        \A p \in Individual :
            /\ \A f \in DOMAIN IndividualConf(p) :
                  f \in DOMAIN Resolved(p) /\ Resolved(p)[f] = IndividualConf(p)[f]
            /\ \A f \in Fields \ DOMAIN IndividualConf(p) :
                  IF f # "number" /\ Givers(p, f) # {}
                  THEN /\ f \in DOMAIN Resolved(p)
                       /\ \E k \in Givers(p, f) :
                             /\ \A j \in Givers(p, f) : k <= j
                             /\ Resolved(p)[f] = port_ranges_conf[k].conf[f]
                  ELSE f \notin DOMAIN Resolved(p)

\* an individually configured port number covered by both ranges: one gives a
\* field it has (with another value), the other a field it lacks
C2_Witness ==
    /\ ranges_pc = "done"
    /\ \E p \in Individual :
          /\ "native_vlan" \in DOMAIN IndividualConf(p)
          /\ \E k \in Givers(p, "native_vlan") :
                port_ranges_conf[k].conf["native_vlan"] # IndividualConf(p)["native_vlan"]
          /\ "description" \notin DOMAIN IndividualConf(p)
          /\ Givers(p, "description") # {}
          /\ "description" \in DOMAIN Resolved(p)

\* C10: a port number without individual configuration that range A covers
\* and range B does not ends up with exactly the fields of A's configuration
\* ('number' apart, which line 128 deletes) and with no field of B's, in
\* whatever order A and B are expanded.
C10_OnlyCoveringRangeConfigures ==
    ranges_pc = "done" =>
        \A q \in DOMAIN port_num_to_port_conf \ Individual :
            \A a \in Expanded, b \in Expanded :
                (Covers(a, q) /\ ~Covers(b, q)) =>
                    Resolved(q) = DelNumber(port_ranges_conf[a].conf)


-----------------------------------------------------------------------------
(* The identifier resolver: _get_vlan_by_identifier, lines 70-84 *)

\* faucet.valve_of, imported at line 28
MIN_VID == 1
MAX_VID == 4095

\* the value of a character as a digit of a numeric literal, 99 for no digit
CharVal(c) ==
    IF IsDigit(c) THEN DigitVal(c)
    ELSE CASE c \in {"a", "A"} -> 10
           [] c \in {"b", "B"} -> 11
           [] c \in {"c", "C"} -> 12
           [] c \in {"d", "D"} -> 13
           [] c \in {"e", "E"} -> 14
           [] c \in {"f", "F"} -> 15
           [] OTHER -> 99

RECURSIVE ParseBase(_, _)
ParseBase(s, base) ==
    IF s = <<>> THEN 0
    ELSE ParseBase(SubSeq(s, 1, Len(s) - 1), base) * base + CharVal(s[Len(s)])

AllDigitsOf(s, base) == s # <<>> /\ \A i \in 1..Len(s) : CharVal(s[i]) < base

\* line 77, int(str(vlan_ident), 0): [ok, val]. A literal is a decimal number
\* without leading zeros (or all zeros), or 0x, 0o, 0b and digits of that base;
\* anything else raises ValueError. (Signs, blanks and underscores, which int()
\* also takes, are in no reference of the model.)
IntLiteral(s) ==
    LET base == IF Len(s) >= 2 /\ s[1] = "0"
                THEN CASE s[2] \in {"x", "X"} -> 16
                       [] s[2] \in {"o", "O"} -> 8
                       [] s[2] \in {"b", "B"} -> 2
                       [] OTHER -> 10
                ELSE 10
        body == IF base = 10 THEN s ELSE SubSeq(s, 3, Len(s))
        ok == /\ AllDigitsOf(body, base)
              /\ base = 10 => (body[1] # "0" \/ \A i \in 1..Len(body) : body[i] = "0")
    IN  [ok |-> ok, val |-> IF ok THEN ParseBase(body, base) ELSE 0]

\* A VLAN object. oid tells one object from another; named tells the objects of
\* line 162 (built from a top-level declaration) from those of line 84.
NoVlan == [oid |-> 0, vid |-> 0, dp_id |-> 0, bgp_routerid |-> FALSE, named |-> FALSE]

\* line 84: VLAN(vid, dp_id), a VLAN without configuration
NewVLAN(oid, vid, dp_id) ==
    [oid |-> oid, vid |-> vid, dp_id |-> dp_id, bgp_routerid |-> FALSE, named |-> FALSE]

\* line 162: VLAN(vlan_ident, dp_id, vlan_conf)
NamedVLAN(oid, dp_id, vlan_conf) ==
    [oid |-> oid, vid |-> vlan_conf.vid, dp_id |-> dp_id,
     bgp_routerid |-> vlan_conf.bgp_routerid, named |-> TRUE]

\* The mapping vlans is a dict: a sequence of [key, vlan] in insertion order.
Keys(vs) == {vs[i].key : i \in 1..Len(vs)}

Lookup(vs, key) == vs[CHOOSE i \in 1..Len(vs) : vs[i].key = key].vlan

Values(vs) == {vs[i].vlan : i \in 1..Len(vs)}

\* a slip of line 84: the new VLAN is returned and never registered
SetDefaultForgets(vs, key, vlan) == vs

\* line 84, dict.setdefault: the mapping after it
SetDefault(vs, key, vlan) ==
    IF key \in Keys(vs) THEN vs ELSE Append(vs, [key |-> key, vlan |-> vlan])

\* lines 73-75: the first VLAN, in dict order, whose str(vid) is the reference (0: none)
FirstByVidString(vs, ident) ==
    IF \E i \in 1..Len(vs) : Str(vs[i].vlan.vid) = ident
    THEN CHOOSE i \in 1..Len(vs) :
            /\ Str(vs[i].vlan.vid) = ident
            /\ \A j \in 1..(i - 1) : Str(vs[j].vlan.vid) # ident
    ELSE 0

\* lines 70-84: [vlans, ret, err, made]; made counts the VLAN objects constructed and kept
GetVlanByIdentifier(dp_id, ident, vs, oid) ==
    LET lit == IntLiteral(ident)
        new == NewVLAN(oid, lit.val, dp_id)
        after == SetDefault(vs, ident, new)
    IN  IF ident \in Keys(vs)
        THEN [vlans |-> vs, ret |-> Lookup(vs, ident), err |-> "none", made |-> 0]
        ELSE IF FirstByVidString(vs, ident) # 0
        THEN [vlans |-> vs, ret |-> vs[FirstByVidString(vs, ident)].vlan,
              err |-> "none", made |-> 0]
        ELSE IF ~lit.ok
        THEN [vlans |-> vs, ret |-> NoVlan, err |-> "invalid", made |-> 0]
        ELSE IF ~(lit.val >= MIN_VID /\ lit.val <= MAX_VID)
        THEN [vlans |-> vs, ret |-> NoVlan, err |-> "range", made |-> 0]
        ELSE [vlans |-> after,
              ret |-> IF ident \in Keys(after) THEN Lookup(after, ident) ELSE new,
              err |-> "none", made |-> 1]

-----------------------------------------------------------------------------
(* SpecVlan: resolutions on the mapping of one switch *)

\* the references resolved: names, decimal and prefixed literals, a literal
\* with a leading zero, one above MAX_VID, and zero
VlanRefs ==
    {<<"o", "f", "f", "i", "c", "e">>, <<"l", "a", "b">>,
     <<"1", "0", "0">>, <<"0", "x", "6", "4">>, <<"0", "o", "1", "4", "4">>,
     <<"2", "0", "0">>, <<"0", "X", "c", "8">>,
     <<"0", "1", "0", "0">>, <<"4", "0", "9", "6">>, <<"0">>}

\* the top-level vlans section: sequences of [key, conf] in dict order
VlansConfs ==
    {<<>>,
     <<[key |-> <<"o", "f", "f", "i", "c", "e">>, conf |-> [vid |-> 100, bgp_routerid |-> FALSE]]>>,
     <<[key |-> <<"o", "f", "f", "i", "c", "e">>, conf |-> [vid |-> 300, bgp_routerid |-> FALSE]]>>}

\* lines 160-162: the switch-local mapping, one new VLAN per top-level declaration
SeedVlans(vlans_conf, dp_id) ==
    [i \in 1..Len(vlans_conf) |->
        [key |-> vlans_conf[i].key, vlan |-> NamedVLAN(i, dp_id, vlans_conf[i].conf)]]

InitVlan ==
    /\ \E vc \in VlansConfs : vlans = SeedVlans(vc, 1)
    /\ n_vlan_objs = Len(vlans)
    /\ vlan_ident = <<>>
    /\ vlan_ret = [vlan |-> NoVlan, err |-> "none"]
    /\ ExpandIdle /\ RangesIdle /\ RunIdle

Resolve ==
    \E ident \in VlanRefs :
        LET r == GetVlanByIdentifier(1, ident, vlans, n_vlan_objs + 1)
        IN  /\ vlans' = r.vlans
            /\ n_vlan_objs' = n_vlan_objs + r.made
            /\ vlan_ident' = ident
            /\ vlan_ret' = [vlan |-> r.ret, err |-> r.err]
            /\ UNCHANGED <<expand_vars, ranges_vars, run_vars>>

NextVlan == Resolve

SpecVlan == InitVlan /\ [][NextVlan]_vars

\* reference R names no VLAN and no VLAN of the mapping has the id it parses to
FreshNumber(R, vs) ==
    /\ R \notin Keys(vs)
    /\ IntLiteral(R).ok
    /\ IntLiteral(R).val >= MIN_VID /\ IntLiteral(R).val <= MAX_VID
    /\ \A v \in Values(vs) : v.vid # IntLiteral(R).val

\* the VLAN objects of the mapping that the resolver made
ResolverMade(vs) == {v \in Values(vs) : ~v.named}

\* C3: resolving a numeric reference R that names no VLAN and whose id no VLAN
\* of the mapping has makes exactly one new VLAN, with that id, registered
\* under R; every later resolution of R returns that very object and makes none.
C3_ResolveOnceThenSame ==
    [][\A R \in VlanRefs :
          (vlan_ident' = R) =>
              /\ FreshNumber(R, vlans) =>
                    /\ Len(vlans') = Len(vlans) + 1
                    /\ n_vlan_objs' = n_vlan_objs + 1
                    /\ vlan_ret'.err = "none"
                    /\ vlan_ret'.vlan.vid = IntLiteral(R).val
                    /\ vlan_ret'.vlan.oid \notin {v.oid : v \in Values(vlans)}
                    /\ R \in Keys(vlans') /\ Lookup(vlans', R) = vlan_ret'.vlan
              /\ (R \in Keys(vlans) /\ ~Lookup(vlans, R).named) =>
                    /\ vlan_ret' = [vlan |-> Lookup(vlans, R), err |-> "none"]
                    /\ vlans' = vlans
                    /\ n_vlan_objs' = n_vlan_objs
      ]_vars

\* "100" was made by the resolver, other references were resolved and made
\* VLANs after it, and "100" has just been resolved again
C3_Witness ==
    /\ vlan_ident = <<"1", "0", "0">>
    /\ Len(vlans) >= 3
    /\ vlans[1].key = <<"1", "0", "0">>
    /\ ~vlans[1].vlan.named
    /\ vlan_ret = [vlan |-> vlans[1].vlan, err |-> "none"]

\* C9: after any sequence of resolutions of numeric references, in whatever
\* spelling, the mapping never holds two distinct resolver-made VLANs with the
\* same numeric id.
C9_OneVlanPerNumber ==
    \A v \in ResolverMade(vlans), w \in ResolverMade(vlans) :
        v.vid = w.vid => v = w


-----------------------------------------------------------------------------
(* The port assembler and the switch assembler, lines 86-110 and 148-174 *)

\* a reference that is None (or a list of no references) is the empty sequence
PortVlans(port) == port.native_vlan \o port.tagged_vlans

\* lines 101 and 105: the references of a port resolved in order, the native
\* one first; st is [vlans, rets, err]
RECURSIVE ResolveAll(_, _, _)
ResolveAll(dp_id, refs, st) ==
    IF refs = <<>> \/ st.err # "none" THEN st
    ELSE LET r == GetVlanByIdentifier(dp_id, Head(refs), st.vlans, Len(st.vlans) + 1)
         IN  ResolveAll(dp_id, Tail(refs),
                 [vlans |-> r.vlans,
                  rets |-> IF r.err = "none" THEN Append(st.rets, r.ret) ELSE st.rets,
                  err |-> r.err])

\* a slip of line 109: the assertion left out
PortNotChecked(port) == TRUE

\* line 109: assert port.vlans() or port.stack
PortAssertion(port) == PortVlans(port) # <<>> \/ port.stack

\* lines 96-110: [vlans, port, err]. A port holds its VLANs as [dp_id, oid].
DpParsePort(dp_id, p_identifier, port_conf, vs) ==
    LET st == ResolveAll(dp_id, port_conf.native_vlan \o port_conf.tagged_vlans,
                         [vlans |-> vs, rets |-> <<>>, err |-> "none"])
        n == Len(port_conf.native_vlan)
        port == [number |-> p_identifier,
                 native_vlan |-> [i \in 1..n |-> st.rets[i].oid],
                 tagged_vlans |-> [i \in 1..(Len(st.rets) - n) |-> st.rets[n + i].oid],
                 stack |-> port_conf.stack]
    IN  IF st.err # "none"
        THEN [vlans |-> st.vlans, port |-> <<>>, err |-> st.err]
        ELSE [vlans |-> st.vlans, port |-> port,
              err |-> IF PortAssertion(port) THEN "none" ELSE "port"]

\* vlan.get_ports(): the ports that lines 103 and 108 added to the VLAN
GetPorts(vlan, ports) ==
    {i \in 1..Len(ports) : vlan.oid \in SeqToSet(PortVlans(ports[i]))}

\* vid_dp is a defaultdict(set)
VidDp(m, vid) == IF vid \in DOMAIN m THEN m[vid] ELSE {}

\* a slip of line 91: the check made only from the third switch on
SharedByMoreThanTwo(names) == Cardinality(names) > 2

\* line 91: len(vid_dp[vlan.vid]) > 1
SharedVid(names) == Cardinality(names) > 1

\* lines 86-94: [vlans, vid_dp, err] after _dp_add_vlan(dp, vlan), where st.vlans
\* is dp.vlans; add_vlan is done before the assertion
DpAddVlan(name, vlan, st) ==
    IF vlan \in SeqToSet(st.vlans) THEN st
    ELSE LET names == VidDp(st.vid_dp, vlan.vid) \cup {name}
         IN  [vlans |-> Append(st.vlans, vlan),
              vid_dp |-> [v \in DOMAIN st.vid_dp \cup {vlan.vid} |->
                            IF v = vlan.vid THEN names ELSE st.vid_dp[v]],
              err |-> IF SharedVid(names) /\ vlan.bgp_routerid THEN "speaker" ELSE "none"]

\* lines 151-153: the VLANs of the mapping that have ports, in dict order
RECURSIVE AddVlansWithPorts(_, _, _, _)
AddVlansWithPorts(name, vs, ports, st) ==
    IF vs = <<>> \/ st.err # "none" THEN st
    ELSE AddVlansWithPorts(name, Tail(vs), ports,
             IF GetPorts(Head(vs).vlan, ports) # {}
             THEN DpAddVlan(name, Head(vs).vlan, st)
             ELSE st)

-----------------------------------------------------------------------------
(* Spec: one run of dp_parser *)

\* most switches declared in the dps section
MaxDPs == 2
\* most ports _dp_add_ports finds for one switch
MaxPorts == 2

\* the keys of the dps section, in dict order
DPNames == <<"sw1", "sw2", "sw3", "sw4">>

Versions == {1, 2, 3}

Office == <<"o", "f", "f", "i", "c", "e">>
Lab == <<"l", "a", "b">>
Hex64 == <<"0", "x", "6", "4">>

\* the top-level vlans section: two names for VLAN id 100, both declaring
\* bgp_routerid (a reference "0x64" makes a third VLAN of id 100, without)
RunVlansConfs ==
    {<<[key |-> Office, conf |-> [vid |-> 100, bgp_routerid |-> TRUE]],
       [key |-> Lab, conf |-> [vid |-> 100, bgp_routerid |-> TRUE]]>>}

\* the port configurations line 148 hands over
PortConfs ==
    {[native_vlan |-> <<ref>>, tagged_vlans |-> <<>>, stack |-> FALSE] :
        ref \in {Office, Lab, Hex64, <<"0">>}}
    \cup {[native_vlan |-> <<>>, tagged_vlans |-> <<>>, stack |-> st] : st \in BOOLEAN}

NoDP == [name |-> "", dp_id |-> 0, ports |-> <<>>, vlans |-> <<>>]

Running == [kind |-> "running", msg |-> "", dps |-> <<>>]

\* the run lets the AssertionError through
AssertionEscapes(msg) == [kind |-> "AssertionError", msg |-> msg, dps |-> <<>>]

\* lines 60-61: an AssertionError raised in the try block leaves dp_parser as
\* InvalidConfigError, and nothing is returned
DpParserExcept(msg) == [kind |-> "InvalidConfigError", msg |-> msg, dps |-> <<>>]

Fail(msg) == pc' = "done" /\ outcome' = DpParserExcept(msg)

Init ==
    /\ pc = "start"
    /\ conf \in {c \in [kind : {"none", "notdict", "dict"}, has_version : BOOLEAN,
                       version : Versions, include_ok : BOOLEAN, ndps : 0..MaxDPs,
                       vlans : RunVlansConfs] :
                    ~c.has_version => c.version = 2}
    /\ dps = <<>>
    /\ dp = NoDP
    /\ dp_vlans = <<>>
    /\ vid_dp = <<>>
    /\ calls = [finalize_config |-> <<>>, resolve_stack_topology |-> <<>>]
    /\ outcome = Running
    /\ ExpandIdle /\ RangesIdle /\ VlanIdle

\* line 55: conf.pop('version', 2) takes the key out of conf
PopVersion(c) == [c EXCEPT !.has_version = FALSE, !.version = 2]

\* lines 52-56
DpParser ==
    /\ pc = "start"
    /\ IF conf.kind = "none" THEN Fail("Config file is empty") /\ UNCHANGED conf
       ELSE IF conf.kind # "dict"
       THEN Fail("Config file does not have valid syntax") /\ UNCHANGED conf
       ELSE /\ conf' = PopVersion(conf)
            /\ IF conf.version # 2 THEN Fail("Only config version 2 is supported")
               ELSE pc' = "v2" /\ UNCHANGED outcome
    /\ UNCHANGED <<dps, dp, dp_vlans, vid_dp, calls>>
    /\ UNCHANGED <<expand_vars, ranges_vars, vlan_vars>>

\* lines 184-198
ConfigParserV2 ==
    /\ pc = "v2"
    /\ IF ~conf.include_ok THEN Fail("Error found while loading config file")
       ELSE IF conf.ndps = 0 THEN Fail("DPs not configured in file")
       ELSE pc' = "assemble" /\ UNCHANGED outcome
    /\ UNCHANGED <<conf, dps, dp, dp_vlans, vid_dp, calls>>
    /\ UNCHANGED <<expand_vars, ranges_vars, vlan_vars>>

\* lines 155-170: the next declared switch; sanity_check may fail an assertion
NewDP ==
    /\ pc = "assemble"
    /\ \E sane \in BOOLEAN :
          IF ~sane
          THEN Fail("sanity_check") /\ UNCHANGED <<dp, dp_vlans>>
          ELSE /\ dp' = [name |-> DPNames[Len(dps) + 1], dp_id |-> Len(dps) + 1,
                         ports |-> <<>>, vlans |-> <<>>]
               /\ dp_vlans' = SeedVlans(conf.vlans, Len(dps) + 1)
               /\ pc' = "ranges"
               /\ UNCHANGED outcome
    /\ UNCHANGED <<conf, dps, vid_dp, calls>>
    /\ UNCHANGED <<expand_vars, ranges_vars, vlan_vars>>

\* lines 113-147 (SpecRanges follows them): an assertion of lines 134-136
\* fails, or the port configurations are ready
ExpandPorts ==
    /\ pc = "ranges"
    /\ \E ok \in BOOLEAN :
          IF ok THEN pc' = "ports" /\ UNCHANGED outcome
          ELSE Fail("Incorrect port range")
    /\ UNCHANGED <<conf, dps, dp, dp_vlans, vid_dp, calls>>
    /\ UNCHANGED <<expand_vars, ranges_vars, vlan_vars>>

\* lines 148-150, one port
AddPort ==
    /\ pc = "ports"
    /\ Len(dp.ports) < MaxPorts
    /\ \E port_conf \in PortConfs :
          LET r == DpParsePort(dp.dp_id, Len(dp.ports) + 1, port_conf, dp_vlans)
          IN  /\ dp_vlans' = r.vlans
              /\ IF r.err = "none"
                 THEN /\ dp' = [dp EXCEPT !.ports = Append(@, r.port)]
                      /\ UNCHANGED <<pc, outcome>>
                 ELSE /\ Fail(CASE r.err = "invalid" -> "VLAN VID value is invalid"
                                [] r.err = "range" -> "VID value is not in valid range"
                                [] OTHER -> "must have a VLAN or be a stack port")
                      /\ UNCHANGED dp
    /\ UNCHANGED <<conf, dps, vid_dp, calls>>
    /\ UNCHANGED <<expand_vars, ranges_vars, vlan_vars>>

\* a slip of lines 174-177: finalization entered inside the assembly loop
FinalizeInLoop(n) == "finalize"

\* the position after line 174 appended a switch, n switches being assembled
AfterAppend(n) == IF n = conf.ndps THEN "finalize" ELSE "assemble"

\* lines 151-153 and 172-174
AddVlans ==
    /\ pc = "ports"
    /\ LET st == AddVlansWithPorts(dp.name, dp_vlans, dp.ports,
                     [vlans |-> dp.vlans, vid_dp |-> vid_dp, err |-> "none"])
           done == [dp EXCEPT !.vlans = st.vlans]
       IN  /\ vid_dp' = st.vid_dp
           /\ IF st.err = "none"
              THEN /\ dps' = Append(dps, done)
                   /\ dp' = NoDP
                   /\ dp_vlans' = <<>>
                   /\ pc' = AfterAppend(Len(dps) + 1)
                   /\ UNCHANGED outcome
              ELSE /\ Fail("DPs sharing a BGP speaker VLAN is unsupported")
                   /\ dp' = done
                   /\ UNCHANGED <<dps, dp_vlans>>
    /\ UNCHANGED <<conf, calls>>
    /\ UNCHANGED <<expand_vars, ranges_vars, vlan_vars>>

Names(ds) == [i \in 1..Len(ds) |-> ds[i].name]

\* lines 176-177, one switch; finalize_config may fail an assertion
Finalize ==
    /\ pc = "finalize"
    /\ LET i == Len(calls.finalize_config) + 1
       IN  /\ calls' = [calls EXCEPT !.finalize_config =
                           Append(@, [dp |-> dps[i].name, dps |-> Names(dps)])]
           /\ \E ok \in BOOLEAN :
                 IF ok
                 THEN /\ pc' = IF i = Len(dps) THEN "resolve" ELSE "finalize"
                      /\ UNCHANGED outcome
                 ELSE Fail("finalize_config")
    /\ UNCHANGED <<conf, dps, dp, dp_vlans, vid_dp>>
    /\ UNCHANGED <<expand_vars, ranges_vars, vlan_vars>>

\* lines 178-179, one switch; resolve_stack_topology may fail an assertion
ResolveStack ==
    /\ pc = "resolve"
    /\ LET i == Len(calls.resolve_stack_topology) + 1
       IN  /\ calls' = [calls EXCEPT !.resolve_stack_topology =
                           Append(@, [dp |-> dps[i].name, dps |-> Names(dps)])]
           /\ \E ok \in BOOLEAN :
                 IF ok
                 THEN /\ pc' = IF i = Len(dps) THEN "return" ELSE "resolve"
                      /\ UNCHANGED outcome
                 ELSE Fail("resolve_stack_topology")
    /\ UNCHANGED <<conf, dps, dp, dp_vlans, vid_dp>>
    /\ UNCHANGED <<expand_vars, ranges_vars, vlan_vars>>

\* lines 181, 206, 57-58 and 63
Return ==
    /\ pc = "return"
    /\ pc' = "done"
    /\ outcome' = [kind |-> "returned", msg |-> "", dps |-> dps]
    /\ UNCHANGED <<conf, dps, dp, dp_vlans, vid_dp, calls>>
    /\ UNCHANGED <<expand_vars, ranges_vars, vlan_vars>>

Next ==
    \/ DpParser
    \/ ConfigParserV2
    \/ NewDP
    \/ ExpandPorts
    \/ AddPort
    \/ AddVlans
    \/ Finalize
    \/ ResolveStack
    \/ Return

Spec == Init /\ [][Next]_vars


-----------------------------------------------------------------------------
(* The claims about a run *)

SpeakerMsg == "DPs sharing a BGP speaker VLAN is unsupported"
PortMsg == "must have a VLAN or be a stack port"

\* the VLAN objects of numeric id vid that switch d has attached
Attached(d, vid) == {v \in SeqToSet(d.vlans) : v.vid = vid}

Declaring(d, vid) == {v \in Attached(d, vid) : v.bgp_routerid}

AttachedVids(ds) == {v.vid : v \in UNION {SeqToSet(ds[i].vlans) : i \in 1..Len(ds)}}

Attaching(ds, vid) == {i \in 1..Len(ds) : Attached(ds[i], vid) # {}}

C5_OneSpeakerPasses ==
    (outcome.msg = SpeakerMsg /\ Len(dps) = 1 /\ dp.vlans # <<>>) =>
        LET vid == dp.vlans[Len(dp.vlans)].vid
        IN  ~ /\ Cardinality(Attached(dps[1], vid)) = 1
              /\ Cardinality(Attached(dp, vid)) = 1
              /\ Cardinality(Declaring(dps[1], vid) \cup Declaring(dp, vid)) = 1

\* the switches of the list, the one being assembled, and those returned
Switches ==
    SeqToSet(dps) \cup (IF dp = NoDP THEN {} ELSE {dp}) \cup SeqToSet(outcome.dps)

\* C6: every port a switch holds has a native or tagged VLAN or is a stack
\* port; and in an assembled switch each VLAN of a port is a VLAN the switch
\* has attached.
C6_PortsHaveVlanOrStack ==
    /\ \A d \in Switches : \A i \in 1..Len(d.ports) :
          \/ d.ports[i].native_vlan # <<>>
          \/ d.ports[i].tagged_vlans # <<>>
          \/ d.ports[i].stack
    /\ \A d \in SeqToSet(dps) : \A i \in 1..Len(d.ports) :
          \A oid \in SeqToSet(d.ports[i].native_vlan \o d.ports[i].tagged_vlans) :
              \E v \in SeqToSet(d.vlans) : v.oid = oid /\ v.dp_id = d.dp_id

\* a port with neither VLAN nor stack marker has failed the run, and the switch
\* holds only the port added before it
C6_Witness ==
    /\ outcome.kind = "InvalidConfigError" /\ outcome.msg = PortMsg
    /\ Len(dp.ports) = 1
    /\ dp.ports[1].stack

FinalizedNames == [i \in 1..Len(calls.finalize_config) |-> calls.finalize_config[i].dp]

ResolvedNames ==
    [i \in 1..Len(calls.resolve_stack_topology) |-> calls.resolve_stack_topology[i].dp]

C7_Outcomes ==
    /\ outcome.kind \in {"running", "returned", "InvalidConfigError"}
    /\ pc = "done" <=> outcome.kind # "running"
    /\ outcome.kind = "returned" =>
          /\ outcome.dps = dps /\ outcome.dps # <<>>
          /\ conf.kind = "dict" /\ conf.include_ok
          /\ Len(dps) = conf.ndps
          /\ FinalizedNames = Names(dps) /\ ResolvedNames = Names(dps)
    /\ outcome.kind # "returned" => outcome.dps = <<>>
    /\ (pc = "done" /\ conf.ndps = 0) => outcome.kind = "InvalidConfigError"

C7_VersionStep ==
    (pc = "start" /\ (conf.kind # "dict" \/ conf.version # 2))
        => (pc' = "done" /\ outcome'.kind = "InvalidConfigError")

\* C7: dp_parser ends in InvalidConfigError or returns a non-empty list of
\* switches that are all assembled and finalized; a declared version other
\* than 2 or no declared switch ends in InvalidConfigError; so does a failed
\* assertion, and then no switch list is returned.
C7_ErrorOrWholeList == [](C7_Outcomes) /\ [][C7_VersionStep]_vars

\* an assertion failed in a global pass, after the switches were assembled
C7_Witness ==
    /\ outcome.kind = "InvalidConfigError"
    /\ outcome.msg \in {"finalize_config", "resolve_stack_topology"}
    /\ Len(dps) >= 2
    /\ outcome.dps = <<>>

IsPrefix(a, b) == Len(a) <= Len(b) /\ a = SubSeq(b, 1, Len(a))

\* C8: finalize_config is called on no switch before every declared switch is
\* in the list, resolve_stack_topology on none before finalize_config is done
\* on all; each call gets the whole list; a run that returns has made each
\* call once on every switch, and a failure in a pass returns nothing.
C8_PassesArePhased ==
    /\ calls.finalize_config # <<>> => (Len(dps) = conf.ndps /\ dp = NoDP)
    /\ calls.resolve_stack_topology # <<>> => FinalizedNames = Names(dps)
    /\ IsPrefix(FinalizedNames, Names(dps)) /\ IsPrefix(ResolvedNames, Names(dps))
    /\ \A i \in 1..Len(dps), j \in 1..Len(dps) : dps[i].name = dps[j].name => i = j
    /\ \A c \in SeqToSet(calls.finalize_config) \cup SeqToSet(calls.resolve_stack_topology) :
          c.dps = Names(dps) /\ Len(c.dps) = conf.ndps
    /\ outcome.kind = "returned" =>
          FinalizedNames = Names(dps) /\ ResolvedNames = Names(dps)
    /\ outcome.msg \in {"finalize_config", "resolve_stack_topology"} =>
          outcome.kind # "returned" /\ outcome.dps = <<>>

\* a run over two switches or more has returned
C8_Witness ==
    /\ outcome.kind = "returned"
    /\ Len(outcome.dps) >= 2
    /\ Len(calls.resolve_stack_topology) = Len(outcome.dps)

=============================================================================
